---- MODULE Spec2Model ----
(***************************************************************************)
(* A model of streamlit_app.py: the transcription pipeline                 *)
(* (transcribe_audio_ultra and its caller main), the cached model loader,  *)
(* the audio enhancement chain, the text post-processor, the quality       *)
(* scorer and format_time.                                                 *)
(*                                                                         *)
(* Texts are sequences of characters.  A character is written as a short   *)
(* ASCII name: the hiragana by their reading ("ke" is U+3051, "xtu" the    *)
(* small tsu U+3063), "maru" the ideographic full stop U+3002, "ten" the   *)
(* ideographic comma U+3001, "sp" the space, "zsp" the ideographic space   *)
(* U+3000, "nl" the line feed, and "x" a letter that occurs in no rule.    *)
(* Probabilities and scores are exact numbers in hundredths (percent):     *)
(* the rounding of Python's binary floats is not modelled.                 *)
(*                                                                         *)
(* Requests run one after the other, as Streamlit runs a session's script. *)
(* Left out, as nothing stated below reads them: the page layout and the   *)
(* display of results, the decoding options (optimize_whisper_options),    *)
(* main's checks of the upload (a file is chosen, of at most 25 MB), and   *)
(* a failure to create the temp copy of the received audio.                *)
(***************************************************************************)
EXTENDS Integers, Sequences, FiniteSets, TLC

VARIABLES
    pc,             \* where the request in flight stands
    req,            \* the arguments and widget values of the request in flight
    cache,          \* st.cache_resource's entry for load_optimized_model
    instances,      \* how many engines whisper.load_model has instantiated
    model,          \* transcribe_audio_ultra's local: the engine it holds
    files,          \* the temporary files that exist, with their contents
    tmp_file_path,  \* transcribe_audio_ultra's local
    audio,          \* what the enhancement stage did for the request in flight
    result,         \* what model.transcribe gave
    ret,            \* the triple transcribe_audio_ultra returned
    session_state,  \* st.session_state
    nreq,           \* requests started so far
    probe           \* a pure function's argument and the values it gave

vars == <<pc, req, cache, instances, model, files, tmp_file_path, audio,
          result, ret, session_state, nreq, probe>>

-----------------------------------------------------------------------------
(* Characters and the str methods the code uses                            *)

NonWordChars == {"maru", "ten", "sp", "zsp", "nl"}
SpaceChars == {"sp", "zsp", "nl"}

\* re's \w on a str: letters (the hiragana included), digits, underscore
IsWord(c) == c \notin NonWordChars
\* re's \s, and the characters str.strip and str.split treat as whitespace
IsSpace(c) == c \in SpaceChars

Take(s, k) == SubSeq(s, 1, k)

\* whether lit stands in s at position i
LitAt(s, i, lit) ==
    /\ i >= 1
    /\ i + Len(lit) - 1 <= Len(s)
    /\ SubSeq(s, i, i + Len(lit) - 1) = lit

RECURSIVE lstrip(_)
lstrip(s) == IF s # <<>> /\ IsSpace(Head(s)) THEN lstrip(Tail(s)) ELSE s

RECURSIVE rstrip(_)
rstrip(s) ==
    IF s # <<>> /\ IsSpace(s[Len(s)]) THEN rstrip(Take(s, Len(s) - 1)) ELSE s

\* str.strip()
strip(s) == rstrip(lstrip(s))

\* len(s.split()): the number of maximal runs of non-whitespace characters
split_count(s) ==
    Cardinality({i \in 1..Len(s) :
                    /\ ~IsSpace(s[i])
                    /\ (i = 1 \/ IsSpace(s[i - 1]))})

\* c in s
Contains(s, c) == \E i \in 1..Len(s) : s[i] = c

-----------------------------------------------------------------------------
(* re.sub for the four shapes of pattern in the corrections table          *)

\* r'\bLIT\b' -> REPL.  LIT begins and ends with a word character, so \b
\* before it asks for the start of the text or a non-word character, and \b
\* after it for the end of the text or a non-word character.
BoundaryAt(s, i, lit) ==
    /\ LitAt(s, i, lit)
    /\ (i = 1 \/ ~IsWord(s[i - 1]))
    /\ (i + Len(lit) - 1 = Len(s) \/ ~IsWord(s[i + Len(lit)]))

RECURSIVE SubBoundaryFrom(_, _, _, _)
SubBoundaryFrom(s, i, lit, repl) ==
    IF i > Len(s) THEN <<>>
    ELSE IF BoundaryAt(s, i, lit)
         THEN repl \o SubBoundaryFrom(s, i + Len(lit), lit, repl)
         ELSE <<s[i]>> \o SubBoundaryFrom(s, i + 1, lit, repl)

SubBoundary(s, lit, repl) == SubBoundaryFrom(s, 1, lit, repl)

\* r'(\w+)LIT(\w+)' -> r'\1LIT<ten>\2'.  A match that starts at i: group 1
\* is s[i..j-1], all word characters and as long as the rest allows
\* (greedy, with backtracking), LIT stands at j, and group 2 is the whole
\* run of word characters after LIT, at least one.
\* the last position of the run of word characters that holds position i
RECURSIVE RunEnd(_, _)
RunEnd(s, i) ==
    IF i < Len(s) /\ IsWord(s[i + 1]) THEN RunEnd(s, i + 1) ELSE i

ClauseSplits(s, i, lit) ==
    {j \in (i + 1)..Len(s) :
        /\ \A k \in i..(j - 1) : IsWord(s[k])
        /\ LitAt(s, j, lit)
        /\ j + Len(lit) <= Len(s)
        /\ IsWord(s[j + Len(lit)])}

MaxOf(S) == CHOOSE m \in S : \A n \in S : n <= m

RECURSIVE SubClauseFrom(_, _, _)
SubClauseFrom(s, i, lit) ==
    IF i > Len(s) THEN <<>>
    ELSE IF ClauseSplits(s, i, lit) # {}
         THEN LET j == MaxOf(ClauseSplits(s, i, lit))
                  e == RunEnd(s, j + Len(lit))
              IN  SubSeq(s, i, j - 1) \o lit \o <<"ten">>
                    \o SubSeq(s, j + Len(lit), e)
                    \o SubClauseFrom(s, e + 1, lit)
         ELSE <<s[i]>> \o SubClauseFrom(s, i + 1, lit)

SubClause(s, lit) == SubClauseFrom(s, 1, lit)

\* r'LIT$' -> REPL.  Without re.MULTILINE, $ matches at the end of the
\* text and just before a line feed that ends the text.
SubSuffix(s, lit, repl) ==
    IF LitAt(s, Len(s) - Len(lit) + 1, lit)
    THEN Take(s, Len(s) - Len(lit)) \o repl
    ELSE IF s # <<>> /\ s[Len(s)] = "nl" /\ LitAt(s, Len(s) - Len(lit), lit)
         THEN Take(s, Len(s) - Len(lit) - 1) \o repl \o <<"nl">>
         ELSE s

\* r'\s+' -> ' '
RECURSIVE SubSpacesFrom(_, _)
SubSpacesFrom(s, i) ==
    IF i > Len(s) THEN <<>>
    ELSE IF IsSpace(s[i])
         THEN IF i > 1 /\ IsSpace(s[i - 1])
              THEN SubSpacesFrom(s, i + 1)
              ELSE <<"sp">> \o SubSpacesFrom(s, i + 1)
         ELSE <<s[i]>> \o SubSpacesFrom(s, i + 1)

SubSpaces(s) == SubSpacesFrom(s, 1)

-----------------------------------------------------------------------------
(* apply_smart_corrections                                                 *)

\* the corrections dict, in the order a Python dict iterates: as written
corrections == <<
    [kind |-> "boundary", lit |-> <<"e", "to">>, repl |-> <<"e", "xtu", "to">>],
    [kind |-> "boundary", lit |-> <<"a", "no">>, repl |-> <<"a", "no">>],
    [kind |-> "boundary", lit |-> <<"so", "re", "de">>,
                          repl |-> <<"so", "re", "de">>],
    [kind |-> "boundary", lit |-> <<"de", "su", "ne">>,
                          repl |-> <<"de", "su", "ne">>],
    [kind |-> "boundary", lit |-> <<"so", "u", "de", "su", "ne">>,
                          repl |-> <<"so", "u", "de", "su", "ne">>],
    [kind |-> "clause", lit |-> <<"de", "su", "ga">>, repl |-> <<>>],
    [kind |-> "clause", lit |-> <<"no", "de">>, repl |-> <<>>],
    [kind |-> "clause", lit |-> <<"ke", "do">>, repl |-> <<>>],
    [kind |-> "clause", lit |-> <<"xtu", "te">>, repl |-> <<>>],
    [kind |-> "suffix", lit |-> <<"da", "shi">>,
                        repl |-> <<"de", "su", "maru">>],
    [kind |-> "suffix", lit |-> <<"da", "yo">>,
                        repl |-> <<"de", "su", "maru">>],
    [kind |-> "suffix", lit |-> <<"da", "ne">>,
                        repl |-> <<"de", "su", "ne", "maru">>],
    [kind |-> "spaces", lit |-> <<>>, repl |-> <<"sp">>] >>

\* re.sub(pattern, replacement, s) for one entry of the table
ApplyRule(rule, s) ==
    CASE rule.kind = "boundary" -> SubBoundary(s, rule.lit, rule.repl)
      [] rule.kind = "clause"   -> SubClause(s, rule.lit)
      [] rule.kind = "suffix"   -> SubSuffix(s, rule.lit, rule.repl)
      [] rule.kind = "spaces"   -> SubSpaces(s)

\* the for loop: rule k works on what rule k-1 gave
RECURSIVE ApplyRules(_, _)
ApplyRules(k, s) ==
    IF k > Len(corrections) THEN s
    ELSE ApplyRules(k + 1, ApplyRule(corrections[k], s))

apply_smart_corrections(text) ==
    IF text = <<>> THEN text ELSE strip(ApplyRules(1, text))

-----------------------------------------------------------------------------
(* Python values: Optional, dict.get                                       *)

\* an Optional value: None, or Some(v)
NoneVal == [some |-> FALSE]
Some(v) == [some |-> TRUE, v |-> v]

\* d.get(k, default) on a dict modelled as a record
Get(d, k, default) == IF k \in DOMAIN d THEN d[k] ELSE default

-----------------------------------------------------------------------------
(* calculate_quality_score: result is the engine's dict; the score and the *)
(* probability are in hundredths.  The engine's text is always a str, so   *)
(* the except branch (return 50) is not reached and is left out.           *)

MinChars == 10
MinWords == 5
CharBonus == 10
PunctBonus == 5
WordBonus == 5
MissingNoSpeech == 100

Min2(a, b) == IF a <= b THEN a ELSE b
Max2(a, b) == IF a >= b THEN a ELSE b

base_score(text, no_speech_prob) ==
    (100 - no_speech_prob)
      + (IF Len(text) > MinChars THEN CharBonus ELSE 0)
      + (IF Contains(text, "maru") \/ Contains(text, "ten")
         THEN PunctBonus ELSE 0)
      + (IF split_count(text) > MinWords THEN WordBonus ELSE 0)

\* calculate_quality_score without its clamp
calculate_quality_score_unclamped(r) ==
    base_score(Get(r, "text", <<>>), Get(r, "no_speech_prob", MissingNoSpeech))

calculate_quality_score(r) ==
    LET text == Get(r, "text", <<>>)
        no_speech_prob == Get(r, "no_speech_prob", MissingNoSpeech)
    IN  Min2(100, Max2(0, base_score(text, no_speech_prob)))

-----------------------------------------------------------------------------
(* format_time: the string is a sequence of characters                     *)

DigitChar(d) == <<"0", "1", "2", "3", "4", "5", "6", "7", "8", "9">>[d + 1]

\* str(n) for n >= 0
RECURSIVE Digits(_)
Digits(n) ==
    IF n < 10 THEN <<DigitChar(n)>>
    ELSE Digits(n \div 10) \o <<DigitChar(n % 10)>>

\* f"{n:02d}" for n >= 0: zero-padded to at least two digits
Fmt02d(n) == IF n < 10 THEN <<"0">> \o Digits(n) ELSE Digits(n)

\* format_time with the seconds not padded
format_time_unpadded(seconds) ==
    Fmt02d(seconds \div 60) \o <<":">> \o Digits(seconds % 60)

format_time(seconds) ==
    LET minutes == seconds \div 60
        secs == seconds % 60
    IN  Fmt02d(minutes) \o <<":">> \o Fmt02d(secs)

-----------------------------------------------------------------------------
(* enhance_audio_quality.  A waveform is a sequence of samples; a sample   *)
(* is the exact fraction n/d, and d = 0 stands for what IEEE division by   *)
(* zero gives: 0/0 is NaN, n/0 with n # 0 an infinity of n's sign.         *)

Sample(n) == [n |-> n, d |-> 1]
Wave(ints) == [i \in 1..Len(ints) |-> Sample(ints[i])]
NaN == [n |-> 0, d |-> 0]
IsFiniteSample(s) == s.d # 0
AllFinite(w) == \A i \in 1..Len(w) : IsFiniteSample(w[i])

Abs(n) == IF n < 0 THEN -n ELSE n
Sign(n) == IF n < 0 THEN -1 ELSE IF n > 0 THEN 1 ELSE 0

\* np.max(np.abs(w)) of a waveform of whole samples
Peak(w) == MaxOf({Abs(w[i].n) : i \in 1..Len(w)})

\* one sample divided by a whole number: numpy warns on zero, it does not raise
DivSample(s, k) ==
    IF s.d = 0 THEN s
    ELSE IF k = 0 THEN [n |-> Sign(s.n), d |-> 0]
    ELSE [n |-> s.n, d |-> s.d * k]

\* enhanced_audio / np.max(np.abs(enhanced_audio))
Normalize(w) == [i \in 1..Len(w) |-> DivSample(w[i], Peak(w))]

\* the sum of samples over a common denominator; any non-finite term
\* makes the sum NaN
AddSample(a, b) ==
    IF a.d = 0 \/ b.d = 0 THEN NaN
    ELSE IF a.d = b.d THEN [n |-> a.n + b.n, d |-> a.d]
    ELSE [n |-> a.n * b.d + b.n * a.d, d |-> a.d * b.d]

\* np.convolve(w, np.ones(3)/3, mode='same'): the mean of each sample and
\* its two neighbours, the waveform padded with zeros
Smooth(w) ==
    LET at(i) == IF i < 1 \/ i > Len(w) THEN Sample(0) ELSE w[i]
    IN  [i \in 1..Len(w) |->
            DivSample(AddSample(AddSample(at(i - 1), at(i)), at(i + 1)), 3)]

\* enhance_audio_quality with an except branch that returns what the
\* chain had made so far
enhance_audio_quality_partial(audio_data, reduced, fault) ==
    IF fault \in {"reduce_noise", "normalize", "smooth"}
    THEN reduced
    ELSE Smooth(Normalize(reduced))

\* The try block of enhance_audio_quality.  reduced is what nr.reduce_noise
\* returns for audio_data; fault names the step that raises, if any.
enhance_audio_quality(audio_data, reduced, fault) ==
    IF fault \in {"reduce_noise", "normalize", "smooth"}
    THEN audio_data
    ELSE Smooth(Normalize(reduced))

\* the steps of the chain that ran to their end
enhance_steps(fault) ==
    CASE fault = "reduce_noise" -> {}
      [] fault = "normalize"    -> {"reduce_noise"}
      [] fault = "smooth"       -> {"reduce_noise", "normalize"}
      [] OTHER                  -> {"reduce_noise", "normalize", "smooth"}

-----------------------------------------------------------------------------
(* The inputs of the pipeline                                              *)

\* how many requests a run makes
MaxRequests == 2

\* the extension of the uploaded file's name (st.file_uploader admits
\* wav, mp3, m4a, flac, ogg, aac)
UploadExtension == ".mp3"

\* what librosa.load may decode: nothing, silence, a signal
DecodedWaves == {Wave(<<>>), Wave(<<0, 0>>), Wave(<<2, -1>>)}

Zeros(w) == [i \in 1..Len(w) |-> Sample(0)]

\* what nr.reduce_noise may return for w: a waveform of w's length, here w
\* itself or silence
reduce_noise_outputs(w) == {w, Zeros(w)}

\* where the enhancement stage may raise: nowhere, in librosa.load, in a
\* step of enhance_audio_quality, or in sf.write, before or after it has
\* created the file
Faults == {"none", "decode", "reduce_noise", "normalize", "smooth",
           "write_before", "write_after"}

\* the texts the engine may recognise: none; two tokens with the
\* ideographic space between them; a token after a leading space; six
\* words and a full stop
EngineTexts == {
    <<>>,
    <<"e", "to", "zsp", "so", "re", "de">>,
    <<"sp", "a", "no">>,
    <<"x", "sp", "x", "sp", "x", "sp", "x", "sp", "x", "sp", "x", "maru">> }

\* the engine's no-speech probability, in hundredths
NoSpeechProbs == {10}

Segments == << [start |-> 0, end |-> 65, text |-> <<"sp", "x">>] >>

\* the dicts model.transcribe may return: "no_speech_prob" and "segments"
\* are each there or not
EngineResults ==
    LET core == {[text |-> t, language |-> "ja"] : t \in EngineTexts}
        withP == core \cup {r @@ [no_speech_prob |-> p] :
                              r \in core, p \in NoSpeechProbs}
    IN  withP \cup {r @@ [segments |-> Segments] : r \in withP}

-----------------------------------------------------------------------------
(* Temporary files: a path is the random name tempfile gives the request   *)
(* (its id) and what follows it.  The random name holds neither the        *)
(* extension nor the word "enhanced".                                      *)

EnhancedSuffix == "_enhanced.wav"

\* ".wav" if is_recording else os.path.splitext(audio_file.name)[1]
file_extension(r) == IF r.is_recording THEN ".wav" ELSE UploadExtension

\* tempfile.NamedTemporaryFile(delete=False, suffix=file_extension).name
TempPath(r) == [id |-> r.id, suffix |-> file_extension(r)]

\* path.replace(old, new), old and new being suffixes
ReplaceSuffix(path, old, new) ==
    IF path.suffix = old THEN [path EXCEPT !.suffix = new] ELSE path

\* "enhanced" in path
HasEnhanced(path) == path.suffix = EnhancedSuffix

Exists(fs, path) == \E f \in fs : f.path = path
Unlink(fs, path) == {f \in fs : f.path # path}
WriteFile(fs, path, content) ==
    Unlink(fs, path) \cup {[path |-> path, content |-> content]}
ContentOf(fs, path) == (CHOOSE f \in fs : f.path = path).content

\* lines 328-335: os.unlink raises when the file is not there, and the
\* bare except then skips the rest
cleanup_success(fs, path, ext) ==
    IF ~Exists(fs, path) THEN fs
    ELSE IF HasEnhanced(path)
         THEN Unlink(Unlink(fs, path), ReplaceSuffix(path, EnhancedSuffix, ext))
         ELSE Unlink(fs, path)

\* lines 353-357
cleanup_error(fs, path) == IF path.some THEN Unlink(fs, path.v) ELSE fs

-----------------------------------------------------------------------------
(* The result record and the returned triple                               *)

ResultFields == {"text", "original_text", "language", "processing_time",
                 "model_used", "char_count", "word_count", "timestamp",
                 "confidence", "quality_score", "enhanced"}

\* the result record with the counts taken from the original text
transcription_result_original_counts(r) ==
    LET original_text == strip(Get(r, "text", <<>>))
        enhanced_text == apply_smart_corrections(original_text)
    IN  [text |-> enhanced_text,
         original_text |-> original_text,
         language |-> Get(r, "language", "unknown"),
         processing_time |-> "elapsed",
         model_used |-> "base",
         char_count |-> Len(original_text),
         word_count |-> split_count(original_text),
         timestamp |-> "now",
         confidence |-> 100 - Get(r, "no_speech_prob", 0),
         quality_score |-> calculate_quality_score(r),
         enhanced |-> enhanced_text # original_text]

\* lines 296-320; the two clock readings are left abstract
transcription_result(r) ==
    LET original_text == strip(Get(r, "text", <<>>))
        enhanced_text == apply_smart_corrections(original_text)
    IN  [text |-> enhanced_text,
         original_text |-> original_text,
         language |-> Get(r, "language", "unknown"),
         processing_time |-> "elapsed",
         model_used |-> "base",
         char_count |-> Len(enhanced_text),
         word_count |-> split_count(enhanced_text),
         timestamp |-> "now",
         confidence |-> 100 - Get(r, "no_speech_prob", 0),
         quality_score |-> calculate_quality_score(r),
         enhanced |-> enhanced_text # original_text]

\* lines 323-325
segments_of(r, enable_timestamps) ==
    IF enable_timestamps /\ "segments" \in DOMAIN r
    THEN Some(r.segments) ELSE NoneVal

Triple(a, b, c) == [result |-> a, segments |-> b, quality_score |-> c]

\* a failure that returns a record with only its text set
PartialTriple == Triple(Some([text |-> <<>>]), NoneVal, NoneVal)

\* return None, None, None (lines 249 and 359)
NoneTriple == Triple(NoneVal, NoneVal, NoneVal)

\* the record of each engine result (lines 296-320), worked out once
ResultRecords == [r \in EngineResults |-> transcription_result(r)]

\* line 345: transcription_result, segments, quality_score
SuccessTriple(r, enable_timestamps) ==
    Triple(Some(ResultRecords[r]),
           segments_of(r, enable_timestamps),
           Some(ResultRecords[r].quality_score))

\* what model.transcribe left when it raised
Raised == [some |-> FALSE, raised |-> TRUE]

SessionKeys == {"result", "segments", "quality_score"}
Absent == [present |-> FALSE]
Present(v) == [present |-> TRUE, v |-> v]
EmptySession == [k \in SessionKeys |-> Absent]

\* "if result:": a dict is true when it is not empty
Truthy(opt) == opt.some /\ DOMAIN opt.v # {}

-----------------------------------------------------------------------------
(* The pipeline: one request at a time, from the button in main to the     *)
(* rerun.  The locals of transcribe_audio_ultra (req, model,               *)
(* tmp_file_path, audio) end with the call.                                *)

PipelineInit ==
    /\ pc = "idle"
    /\ req = NoneVal
    /\ cache = NoneVal
    /\ instances = 0
    /\ model = NoneVal
    /\ files = {}
    /\ tmp_file_path = NoneVal
    /\ audio = NoneVal
    /\ result = NoneVal
    /\ ret = NoneVal
    /\ session_state = EmptySession
    /\ nreq = 0

Init == PipelineInit /\ probe = NoneVal

\* main, lines 476-482 and 503-506: a button starts a request.  The call
\* is given the file, the language and enable_timestamps (and is_recording);
\* enable_enhancement is the value of the sidebar's checkbox.
Click ==
    /\ pc = "idle"
    /\ nreq < MaxRequests
    /\ \E is_recording \in BOOLEAN, enable_timestamps \in BOOLEAN,
          enable_enhancement \in BOOLEAN :
          req' = [id |-> nreq + 1,
                  is_recording |-> is_recording,
                  enable_timestamps |-> enable_timestamps,
                  enable_enhancement |-> enable_enhancement]
    /\ nreq' = nreq + 1
    /\ pc' = "load"
    /\ UNCHANGED <<cache, instances, model, files, tmp_file_path, audio,
                   result, ret, session_state, probe>>

\* a loader with no cache: every lookup misses
cache_lookup_miss(c) == NoneVal

\* st.cache_resource: the entry kept for load_optimized_model, if any
cache_lookup(c) == c

\* load_optimized_model behind st.cache_resource, for a cache entry c:
\* a hit gives the cached value; a miss runs the function, which returns
\* a new engine, or None when whisper.load_model raises, and what it
\* returns is cached
load_optimized_model(c, n, ok) ==
    LET hit == cache_lookup(c)
    IN  IF hit.some THEN [value |-> hit.v, cache |-> c, instances |-> n]
        ELSE IF ok
             THEN [value |-> Some(n + 1), cache |-> Some(Some(n + 1)),
                   instances |-> n + 1]
             ELSE [value |-> NoneVal, cache |-> Some(NoneVal),
                   instances |-> n]

\* lines 247-249
LoadModel ==
    /\ pc = "load"
    /\ \E ok \in BOOLEAN :
        LET l == load_optimized_model(cache, instances, ok)
        IN  /\ cache' = l.cache
            /\ instances' = l.instances
            /\ IF l.value.some
               THEN /\ model' = l.value
                    /\ pc' = "prepare"
                    /\ UNCHANGED <<req, ret>>
               ELSE /\ model' = NoneVal
                    /\ req' = NoneVal
                    /\ ret' = NoneTriple
                    /\ pc' = "returned"
    /\ UNCHANGED <<files, tmp_file_path, audio, result, session_state, nreq,
                   probe>>

\* lines 255-276: the temp copy of the received audio, then the
\* enhancement stage inside its try block
PrepareAudio ==
    /\ pc = "prepare"
    /\ \E fault \in Faults, audio_data \in DecodedWaves :
       \E reduced \in reduce_noise_outputs(audio_data) :
        LET path == TempPath(req)
            received == WriteFile(files, path, [kind |-> "received"])
            enhanced_path ==
                ReplaceSuffix(path, file_extension(req), EnhancedSuffix)
            enhanced_audio == enhance_audio_quality(audio_data, reduced, fault)
        IN  IF fault = "decode"
            THEN /\ files' = received
                 /\ tmp_file_path' = Some(path)
                 /\ audio' = [decoded |-> NoneVal, enhanced |-> NoneVal,
                              fault |-> fault, steps |-> {}]
            ELSE IF Len(audio_data) = 0
            THEN /\ files' = received
                 /\ tmp_file_path' = Some(path)
                 /\ audio' = [decoded |-> Some(audio_data),
                              enhanced |-> NoneVal,
                              fault |-> "none", steps |-> {}]
            ELSE /\ audio' = [decoded |-> Some(audio_data),
                              enhanced |-> Some(enhanced_audio),
                              fault |-> fault,
                              steps |-> enhance_steps(fault)]
                 /\ CASE fault = "write_before" ->
                           /\ files' = received
                           /\ tmp_file_path' = Some(path)
                      [] fault = "write_after" ->
                           /\ files' = WriteFile(received, enhanced_path,
                                                 [kind |-> "partial"])
                           /\ tmp_file_path' = Some(path)
                      [] OTHER ->
                           /\ files' = WriteFile(received, enhanced_path,
                                    [kind |-> "wav", samples |-> enhanced_audio])
                           /\ tmp_file_path' = Some(enhanced_path)
    /\ pc' = "engine"
    /\ UNCHANGED <<req, cache, instances, model, result, ret, session_state,
                   nreq, probe>>

\* lines 284-359: model.transcribe, then either the post-processing, the
\* result record, the cleanup and the return of the triple, or the except
\* handler
RunEngine ==
    /\ pc = "engine"
    /\ \E outcome \in {Raised} \cup {Some(r) : r \in EngineResults} :
        /\ result' = outcome
        /\ IF outcome = Raised
           THEN /\ files' = cleanup_error(files, tmp_file_path)
                /\ ret' = NoneTriple
           ELSE /\ files' = cleanup_success(files, tmp_file_path.v,
                                            file_extension(req))
                /\ ret' = SuccessTriple(outcome.v, req.enable_timestamps)
    /\ pc' = "returned"
    /\ req' = NoneVal
    /\ model' = NoneVal
    /\ tmp_file_path' = NoneVal
    /\ audio' = NoneVal
    /\ UNCHANGED <<cache, instances, session_state, nreq, probe>>

\* main, lines 483-486 and 507-510: what the caller keeps of a triple
store_result(ss, triple) ==
    IF Truthy(triple.result)
    THEN [result |-> Present(triple.result.v),
          segments |-> Present(triple.segments),
          quality_score |-> Present(triple.quality_score.v)]
    ELSE ss

\* main, lines 483-487 and 507-511
MainStore ==
    /\ pc = "returned"
    /\ session_state' = store_result(session_state, ret)
    /\ pc' = "idle"
    /\ ret' = NoneVal
    /\ result' = NoneVal
    /\ UNCHANGED <<req, cache, instances, model, files, tmp_file_path, audio,
                   nreq, probe>>

\* main, lines 621-626
ClearAll ==
    /\ pc = "idle"
    /\ session_state' = EmptySession
    /\ UNCHANGED <<pc, req, cache, instances, model, files, tmp_file_path,
                   audio, result, ret, nreq, probe>>

Next == Click \/ LoadModel \/ PrepareAudio \/ RunEngine \/ MainStore \/ ClearAll

Spec == Init /\ [][Next]_vars

-----------------------------------------------------------------------------
(* The pure functions, each applied to arguments drawn from a bounded set. *)
(* The pipeline stands still meanwhile.                                    *)

PipelineVars == <<pc, req, cache, instances, model, files, tmp_file_path,
                  audio, result, ret, session_state, nreq>>

SeqsUpTo(A, n) == UNION {[1..k -> A] : k \in 0..n}

\* apply_smart_corrections, applied to a text and then to its own output
MaxClauseLen == 7
MaxTextLen == 4
ClauseAlphabet == {"x", "ke", "do"}
TextAlphabet == {"e", "to", "da", "shi", "sp", "zsp", "x", "maru"}
PostInputs ==
    SeqsUpTo(ClauseAlphabet, MaxClauseLen) \cup SeqsUpTo(TextAlphabet, MaxTextLen)

InitPost ==
    /\ PipelineInit
    /\ probe \in {[stage |-> 0, x |-> t, y |-> <<>>, z |-> <<>>] :
                    t \in PostInputs}

PostApply ==
    /\ probe.stage = 0
    /\ probe' = [probe EXCEPT !.stage = 1,
                              !.y = apply_smart_corrections(probe.x)]
    /\ UNCHANGED PipelineVars

PostApplyAgain ==
    /\ probe.stage = 1
    /\ probe' = [probe EXCEPT !.stage = 2,
                              !.z = apply_smart_corrections(probe.y)]
    /\ UNCHANGED PipelineVars

NextPost == PostApply \/ PostApplyAgain

SpecPost == InitPost /\ [][NextPost]_vars

\* calculate_quality_score, applied to an engine result: a text of n words
\* of l letters each, with a punctuation mark or none after the last, and
\* a no-speech probability, there or not
MaxWords == 6
MaxWordLen == 2

RECURSIVE Repeat(_, _)
Repeat(s, n) == IF n = 0 THEN <<>> ELSE s \o Repeat(s, n - 1)

MkText(n, l, punct) ==
    IF n = 0 THEN punct
    ELSE Repeat(Repeat(<<"x">>, l) \o <<"sp">>, n - 1) \o Repeat(<<"x">>, l)
           \o punct

ScoreTexts ==
    {MkText(n, l, punct) : n \in 0..MaxWords, l \in 1..MaxWordLen,
                           punct \in {<<>>, <<"maru">>, <<"ten">>}}

ScoreInputs ==
    LET core == {[text |-> t, language |-> "ja"] : t \in ScoreTexts}
    IN  core \cup {r @@ [no_speech_prob |-> p] : r \in core, p \in 0..100}

InitScore ==
    /\ PipelineInit
    /\ probe \in {[stage |-> 0, r |-> r, score |-> 0] : r \in ScoreInputs}

ScoreApply ==
    /\ probe.stage = 0
    /\ probe' = [probe EXCEPT !.stage = 1,
                              !.score = calculate_quality_score(probe.r)]
    /\ UNCHANGED PipelineVars

NextScore == ScoreApply

SpecScore == InitScore /\ [][NextScore]_vars

\* format_time, applied to a whole number of seconds
MaxSeconds == 6100

InitTime ==
    /\ PipelineInit
    /\ probe \in {[stage |-> 0, seconds |-> sec, out |-> <<>>] :
                    sec \in 0..MaxSeconds}

TimeApply ==
    /\ probe.stage = 0
    /\ probe' = [probe EXCEPT !.stage = 1,
                              !.out = format_time(probe.seconds)]
    /\ UNCHANGED PipelineVars

NextTime == TimeApply

SpecTime == InitTime /\ [][NextTime]_vars

-----------------------------------------------------------------------------
(* The claims                                                              *)

IsNoneTriple(t) ==
    t.result = NoneVal /\ t.segments = NoneVal /\ t.quality_score = NoneVal

IsCompleteTriple(t) ==
    /\ t.result.some
    /\ DOMAIN t.result.v = ResultFields
    /\ t.quality_score.some

\* C1: every call of transcribe_audio_ultra returns either a triple whose
\* first element is a complete result record or (None, None, None); when
\* model.transcribe raised it returns (None, None, None); and the caller
\* of a call that returned (None, None, None) leaves the session state as
\* it was.
C1_AllOrNothing ==
    /\ [](pc = "returned" =>
            /\ IsNoneTriple(ret) \/ IsCompleteTriple(ret)
            /\ result = Raised => IsNoneTriple(ret))
    /\ [][pc = "returned" /\ IsNoneTriple(ret)
            => session_state' = session_state]_vars

\* a call whose engine raised has returned, after an earlier request's
\* result was stored
C1_Witness ==
    /\ pc = "returned"
    /\ result = Raised
    /\ IsNoneTriple(ret)
    /\ session_state["result"].present

\* C2: when transcribe_audio_ultra has returned, no temp copy of received
\* audio and no written "_enhanced.wav" file exists.
C2_TempFilesDeleted ==
    pc = "returned" =>
        \A f \in files : f.content.kind \notin {"received", "wav"}

\* what the engine is about to be given: the content of tmp_file_path
EngineInput == ContentOf(files, tmp_file_path.v)

\* C3: whatever step of the enhancement raises, the request reaches the
\* engine call with a file that exists; the file holds the decoded
\* waveform as decoded when a step of enhance_audio_quality raised, and is
\* the temp copy of the received audio when decoding or writing raised.
\* A call returns without an engine call only when no model was loaded.
C3_EnhancementFallback ==
    /\ pc = "engine" =>
        /\ tmp_file_path.some
        /\ Exists(files, tmp_file_path.v)
        /\ audio.fault \in {"reduce_noise", "normalize", "smooth"} =>
              /\ audio.enhanced.v = audio.decoded.v
              /\ EngineInput = [kind |-> "wav", samples |-> audio.decoded.v]
        /\ audio.fault \in {"decode", "write_before", "write_after"} =>
              /\ tmp_file_path.v = TempPath(req)
              /\ EngineInput = [kind |-> "received"]
    /\ (pc = "returned" /\ result = NoneVal) => cache = Some(NoneVal)

\* noise reduction raised on a signal that it would have changed
C3_Witness ==
    /\ pc = "engine"
    /\ audio.fault = "reduce_noise"
    /\ audio.decoded.v = Wave(<<2, -1>>)
    /\ EngineInput = [kind |-> "wav", samples |-> Wave(<<2, -1>>)]

\* C4: apply_smart_corrections applied to its own output gives that output.
C4_Idempotent == probe.stage = 2 => probe.z = probe.y

\* C5: at most one engine is ever instantiated, and every call that holds
\* an engine holds that one.
C5_OneEngine ==
    /\ instances <= 1
    /\ model.some => (instances = 1 /\ model = Some(1))
    /\ (cache.some /\ cache.v.some) => cache.v = Some(1)

\* the second request holds the engine the first one loaded
C5_Witness ==
    /\ nreq = 2
    /\ pc = "prepare"
    /\ model = Some(1)
    /\ instances = 1

Clamp100(v) == IF v < 0 THEN 0 ELSE IF v > 100 THEN 100 ELSE v
Bonus(cond, v) == IF cond THEN v ELSE 0

\* 100 x (1 - p) and the three bonuses, the punctuation bonus given for
\* the marks in punct
ScoreWith(t, p, punct) ==
    Clamp100((100 - p)
             + Bonus(Len(t) >= 11, 10)
             + Bonus(\E i \in 1..Len(t) : t[i] \in punct, 5)
             + Bonus(split_count(t) >= 6, 5))

\* C6, as amended: for a result with no-speech probability p in [0,1] and
\* text t the score is 100 x (1 - p), plus 10 if t has more than 10
\* characters, plus 5 exactly when t holds an ideographic full stop or an
\* ideographic comma, plus 5 if t has more than 5 words, clamped to
\* [0,100]; it lies within [0,100].
C6_Score ==
    (probe.stage = 1 /\ "no_speech_prob" \in DOMAIN probe.r) =>
        /\ probe.score \in 0..100
        /\ probe.score = ScoreWith(probe.r.text, probe.r.no_speech_prob,
                                   {"maru", "ten"})

\* C6, as claimed: the punctuation bonus is given exactly when t holds a
\* sentence-ending mark.
C6_SentenceEndingOnly ==
    (probe.stage = 1 /\ "no_speech_prob" \in DOMAIN probe.r) =>
        probe.score = ScoreWith(probe.r.text, probe.r.no_speech_prob,
                                {"maru"})

\* a short text with a comma and no full stop was given the bonus
C6_Witness ==
    /\ probe.stage = 1
    /\ "no_speech_prob" \in DOMAIN probe.r
    /\ probe.r.no_speech_prob = 50
    /\ probe.r.text = <<"x", "ten">>
    /\ probe.score = 55

\* C7: the record of a successful request is derived from the
\* post-processed text: text is the post-processed trimmed engine text,
\* original_text the trimmed engine text, char_count and word_count the
\* length and the number of whitespace-separated tokens of text, and
\* enhanced says whether text differs from original_text.
C7_RecordFromPostProcessed ==
    (pc = "returned" /\ result.some) =>
        LET rec == ret.result.v
            trimmed == strip(result.v.text)
        IN  /\ rec.original_text = trimmed
            /\ rec.text = apply_smart_corrections(trimmed)
            /\ rec.char_count = Len(rec.text)
            /\ rec.word_count = split_count(rec.text)
            /\ rec.enhanced <=> (rec.text # rec.original_text)

\* a request whose text the post-processing made longer has succeeded
C7_Witness ==
    /\ pc = "returned"
    /\ result.some
    /\ ret.result.v.enhanced
    /\ ret.result.v.char_count > Len(ret.result.v.original_text)

\* C8: a request made with enable_enhancement false reaches the engine
\* with no enhancement step run and with the audio as received.
C8_EnhancementToggle ==
    (pc = "engine" /\ ~req.enable_enhancement) =>
        /\ audio.steps = {}
        /\ tmp_file_path.v = TempPath(req)

DigitVal(c) == CHOOSE d \in 0..9 : DigitChar(d) = c
IsDigits(s) == \A i \in 1..Len(s) : \E d \in 0..9 : DigitChar(d) = s[i]

RECURSIVE NumVal(_)
NumVal(s) ==
    IF s = <<>> THEN 0
    ELSE 10 * NumVal(Take(s, Len(s) - 1)) + DigitVal(s[Len(s)])

\* C9: format_time(s) is the minutes s \div 60 in at least two digits, a
\* colon, and the seconds s % 60 in exactly two digits.
C9_FormatTime ==
    probe.stage = 1 =>
        LET out == probe.out
            k == Len(out) - 2
            mins == Take(out, k - 1)
            secs == SubSeq(out, k + 1, Len(out))
        IN  /\ Len(out) >= 5
            /\ out[k] = ":"
            /\ IsDigits(mins) /\ IsDigits(secs)
            /\ Len(mins) = 2 \/ (Len(mins) > 2 /\ mins[1] # "0")
            /\ NumVal(mins) = probe.seconds \div 60
            /\ NumVal(secs) = probe.seconds % 60
            /\ NumVal(secs) \in 0..59
            /\ probe.seconds = 0 => out = <<"0", "0", ":", "0", "0">>
            /\ probe.seconds = 65 => out = <<"0", "1", ":", "0", "5">>

\* 3599 seconds have been formatted as 59:59
C9_Witness ==
    /\ probe.stage = 1
    /\ probe.seconds = 3599
    /\ probe.out = <<"5", "9", ":", "5", "9">>

\* C10: the waveform enhance_audio_quality hands on holds no NaN and no
\* infinite sample.
C10_NoUndefinedSamples ==
    (pc = "engine" /\ audio.enhanced.some) => AllFinite(audio.enhanced.v)

\* C11: in the record of a successful request the confidence lies in
\* [0,1] and the quality score is at least min(100, 100 x confidence),
\* the engine's result holding a no-speech probability or not.
C11_ScoreAtLeastConfidence ==
    (pc = "returned" /\ result.some) =>
        LET rec == ret.result.v
        IN  /\ rec.confidence \in 0..100
            /\ rec.quality_score >= (IF rec.confidence > 100 THEN 100
                                     ELSE rec.confidence)

====
